---------------------------- MODULE Spec2Model ----------------------------
(***************************************************************************)
(* Model of src/stats.py: the GitHub language-statistics generator.        *)
(*                                                                         *)
(* Text is modelled as a sequence of one-character strings.  The two       *)
(* README markers are kept as single elements holding the literal: neither *)
(* literal has a proper border ("<" occurs only first, ">" only last) and  *)
(* neither overlaps the other, so an occurrence found by str.find is       *)
(* always a whole marker and concatenation never creates a new one.        *)
(*                                                                         *)
(* A percentage is the exact rational 100 * count / total, kept as the     *)
(* record [n |-> numerator, d |-> denominator]; over the byte counts of    *)
(* the model the float arithmetic of the source gives the same floor,      *)
(* the same threshold test and the same one-decimal rendering.             *)
(***************************************************************************)
EXTENDS Integers, Sequences, FiniteSets

VARIABLES
    GITHUB_TOKEN,          \* module global, line 14 (None when unset)
    GITHUB_USERNAME,       \* module global, line 15
    README_REPO,           \* module global, line 16
    repos,                 \* the account's repositories, as get_repos() yields them
    pc,                    \* position of the run
    idx,                   \* position of the for loop of line 42 in repos
    language_bytes,        \* Counter of line 40: ordered <<language, count>> pairs
    total_bytes,           \* line 51
    language_percentages,  \* lines 55-66
    language_stats,        \* main's local, line 161
    markdown_content,      \* main's local, line 164
    current_content,       \* line 122
    new_content,           \* lines 133-141
    written,               \* contents handed to repo.update_file, in order
    net,                   \* API client constructions and network calls, in order
    printed,               \* what print() has written, in order
    exc,                   \* the exception in flight, or NoException
    applied,               \* splice study: number of splices applied
    before,                \* splice study: document before the last splice
    once,                  \* splice study: document after the first splice
    percentage,            \* bar study: argument of generate_cli_bar
    bar                    \* bar study: its result

vars == <<GITHUB_TOKEN, GITHUB_USERNAME, README_REPO, repos, pc, idx,
          language_bytes, total_bytes, language_percentages, language_stats,
          markdown_content, current_content, new_content, written, net,
          printed, exc, applied, before, once, percentage, bar>>

runVars == <<GITHUB_TOKEN, GITHUB_USERNAME, README_REPO, repos, pc, idx,
             language_bytes, total_bytes, language_percentages,
             language_stats, written, net, printed, exc>>

-----------------------------------------------------------------------------
(* Program constants.                                                      *)

MAX_LANGUAGES == 10

MIN_PERCENTAGE == 1

BAR_LENGTH == 20

FULL_BLOCK == "█"

EMPTY_BLOCK == "░"

start_marker == <<"<!-- GITHUB_LANGUAGE_STATS_START -->">>

end_marker == <<"<!-- GITHUB_LANGUAGE_STATS_END -->">>

NO_DATA == <<"No language statistics available.">>

None == "None"

NoException == <<>>

NL == "\n"

-----------------------------------------------------------------------------
(* Bounds of the model.                                                    *)

MaxRepos == 2

MaxDocLen == 3

MaxReadmeLen == 2

MaxContentLen == 2

MaxApply == 2

MaxDen == 3

-----------------------------------------------------------------------------
(* Python's sequence primitives.                                           *)

SeqsUpTo(S, n) == UNION {[1..k -> S] : k \in 0..n}

\* s[a:b] for 0 <= a, b <= len(s)
Slice(s, a, b) == SubSeq(s, a + 1, b)

\* s.find(pat): the least 0-based index of an occurrence, or -1
Find(s, pat) ==
    LET hits == {i \in 0..(Len(s) - Len(pat)) : Slice(s, i, i + Len(pat)) = pat}
    IN  IF hits = {} THEN -1
        ELSE CHOOSE i \in hits : \A j \in hits : i <= j

\* pat in s
Contains(s, pat) == Find(s, pat) # -1

\* ch * n
Repeat(ch, n) == [k \in 1..n |-> ch]

\* s.ljust(width)
Ljust(s, width) ==
    IF Len(s) >= width THEN s ELSE s \o Repeat(" ", width - Len(s))

\* a test that takes only the empty string for missing
FalsyEmptyOnly(x) == x = ""

\* not x, for the values a configuration global can take
Falsy(x) == x \in {None, ""}

-----------------------------------------------------------------------------
(* update_github_readme, lines 125-141: the new README text.               *)

\* a splice that puts a new section first
SplicePrepending(current, content) ==
    IF Contains(current, start_marker) /\ Contains(current, end_marker)
    THEN LET start_idx == Find(current, start_marker)
             end_idx   == Find(current, end_marker) + Len(end_marker)
         IN  Slice(current, 0, start_idx)
               \o start_marker \o <<NL>> \o content \o <<NL>> \o end_marker
               \o Slice(current, end_idx, Len(current))
    ELSE start_marker \o <<NL>> \o content \o <<NL>> \o end_marker
               \o <<NL, NL>> \o current

\* lines 128-141
Splice(current, content) ==
    IF Contains(current, start_marker) /\ Contains(current, end_marker)
    THEN LET start_idx == Find(current, start_marker)
             end_idx   == Find(current, end_marker) + Len(end_marker)
         IN  Slice(current, 0, start_idx)
               \o start_marker \o <<NL>> \o content \o <<NL>> \o end_marker
               \o Slice(current, end_idx, Len(current))
    ELSE current \o <<NL, NL>> \o start_marker \o <<NL>> \o content
               \o <<NL>> \o end_marker

-----------------------------------------------------------------------------
(* Percentages: exact rationals [n, d] with d > 0.                         *)

Pct(count, total) == [n |-> 100 * count, d |-> total]

\* p >= q
PctGE(p, q) == p.n * q.d >= q.n * p.d

\* p = q as numbers
PctEQ(p, q) == p.n * q.d = q.n * p.d

-----------------------------------------------------------------------------
(* fetch_language_stats, lines 40-69.                                      *)

\* the value a mapping holds for a key, 0 when it has none (Counter)
ValueAt(mapping, key) ==
    LET at == {k \in 1..Len(mapping) : mapping[k][1] = key}
    IN  IF at = {} THEN 0 ELSE mapping[CHOOSE k \in at : TRUE][2]

HasKey(mapping, key) == \E k \in 1..Len(mapping) : mapping[k][1] = key

\* the loop of lines 47-48 over languages.items(), whose keys are distinct:
\* language_bytes[language] += bytes_count leaves a key the Counter holds in
\* its place and puts a new key last
Accumulate(counter, languages) ==
    [k \in 1..Len(counter) |->
        <<counter[k][1], counter[k][2] + ValueAt(languages, counter[k][1])>>]
    \o SelectSeq(languages, LAMBDA item : ~HasKey(counter, item[1]))

\* a loop that passes over no repository
SkipsNothing(repo) == FALSE

\* line 43: the repository is skipped
IsSkipped(repo) == repo.fork

\* sum(language_bytes.values())
RECURSIVE SumValues(_)
SumValues(counter) ==
    IF counter = <<>> THEN 0
    ELSE Head(counter)[2] + SumValues(Tail(counter))

\* a total that is never taken for zero
NeverZero(total) == FALSE

\* line 52
IsZeroTotal(total) == total = 0

\* lines 55-58; count / 0 raises ZeroDivisionError on the first item
ZeroDivisionError == <<"ZeroDivisionError">>

Percentages(counter, total) ==
    IF total = 0 /\ counter # <<>> THEN ZeroDivisionError
    ELSE [k \in 1..Len(counter) |->
            <<counter[k][1], counter[k][2], Pct(counter[k][2], total)>>]

\* a descending order got by reversing an ascending sort: ties end reversed
PlaceTiesReversed(entries, i) ==
    Cardinality({j \in 1..Len(entries) :
                    \/ ~PctGE(entries[i][3], entries[j][3])
                    \/ PctEQ(entries[j][3], entries[i][3]) /\ j > i}) + 1

\* list.sort(key=lambda x: x[2], reverse=True): the sort is stable, so an
\* entry goes after every entry of greater percentage and after the entries
\* of equal percentage that stood before it
Place(entries, i) ==
    Cardinality({j \in 1..Len(entries) :
                    \/ ~PctGE(entries[i][3], entries[j][3])
                    \/ PctEQ(entries[j][3], entries[i][3]) /\ j < i}) + 1

SortDescending(entries) ==
    [r \in 1..Len(entries) |->
        entries[CHOOSE i \in 1..Len(entries) : Place(entries, i) = r]]

\* lines 64-66
PassesThreshold(entry) == PctGE(entry[3], [n |-> MIN_PERCENTAGE, d |-> 1])

FilterMinimum(entries) == SelectSeq(entries, PassesThreshold)

\* language_percentages[:MAX_LANGUAGES]
Truncate(entries) ==
    SubSeq(entries, 1, IF Len(entries) < MAX_LANGUAGES THEN Len(entries)
                       ELSE MAX_LANGUAGES)

-----------------------------------------------------------------------------
(* generate_cli_bar, lines 71-76.                                          *)

\* a bar that rounds the filled blocks up
BarCeiling(p) ==
    LET filled_blocks == (p.n * BAR_LENGTH + p.d * 100 - 1) \div (p.d * 100)
        empty_blocks  == BAR_LENGTH - filled_blocks
    IN  Repeat(FULL_BLOCK, filled_blocks) \o Repeat(EMPTY_BLOCK, empty_blocks)

generate_cli_bar(p) ==
    LET filled_blocks == (p.n * BAR_LENGTH) \div (p.d * 100)
        empty_blocks  == BAR_LENGTH - filled_blocks
    IN  Repeat(FULL_BLOCK, filled_blocks) \o Repeat(EMPTY_BLOCK, empty_blocks)

-----------------------------------------------------------------------------
(* generate_language_stats_markdown, lines 78-104.                         *)

Digit(k) == <<"0", "1", "2", "3", "4", "5", "6", "7", "8", "9">>[k + 1]

RECURSIVE Digits(_)
Digits(k) == IF k < 10 THEN <<Digit(k)>> ELSE Append(Digits(k \div 10), Digit(k % 10))

\* f"{percentage:.1f}%": one decimal, round-half-even
FormatPercentage(p) ==
    LET whole  == (10 * p.n) \div p.d
        rest   == (10 * p.n) % p.d
        tenths == IF 2 * rest > p.d \/ (2 * rest = p.d /\ whole % 2 = 1)
                  THEN whole + 1 ELSE whole
    IN  Digits(tenths \div 10) \o <<".", Digit(tenths % 10), "%">>

\* max(len(lang[0]) for lang in language_stats)
MaxLanguageLength(stats) ==
    CHOOSE w \in {Len(stats[k][1]) : k \in 1..Len(stats)} :
        \A k \in 1..Len(stats) : Len(stats[k][1]) <= w

\* line 100: one row
Row(entry, width) ==
    Ljust(entry[1], width) \o <<" ", " ">> \o generate_cli_bar(entry[3])
        \o <<" ", " ">> \o FormatPercentage(entry[3]) \o <<NL>>

RECURSIVE Rows(_, _)
Rows(stats, width) ==
    IF stats = <<>> THEN <<>>
    ELSE Row(Head(stats), width) \o Rows(Tail(stats), width)

\* rows whose names are not padded
MarkdownUnpadded(stats) ==
    IF stats = <<>> THEN NO_DATA ELSE Rows(stats, 0)

\* lines 80-104
generate_language_stats_markdown(stats) ==
    IF stats = <<>> THEN NO_DATA ELSE Rows(stats, MaxLanguageLength(stats))

-----------------------------------------------------------------------------
(* What the GitHub API can answer: language names are sequences of         *)
(* characters, a repository is its fork flag and its get_languages()       *)
(* mapping in the order items() yields it.                                 *)

Clang == <<"C">>

Go == <<"G", "o">>

Lua == <<"L", "u", "a">>

Zig == <<"Z", "i", "g">>

Nim == <<"N", "i", "m">>

PHP == <<"P", "H", "P">>

Rust == <<"R", "u", "s", "t">>

Java == <<"J", "a", "v", "a">>

Ruby == <<"R", "u", "b", "y">>

Perl == <<"P", "e", "r", "l">>

Dart == <<"D", "a", "r", "t">>

Python == <<"P", "y", "t", "h", "o", "n">>

LanguageMaps ==
    { <<>>,
      << <<Go, 300>>, <<Python, 700>> >>,
      << <<Python, 0>>, <<Go, 400>> >>,
      << <<Python, 1>> >>,
      << <<Go, 0>> >>,
      << <<Clang, 40>>, <<Go, 60>>, <<Lua, 40>>, <<Zig, 100>>, <<Nim, 20>>,
         <<PHP, 60>>, <<Rust, 200>>, <<Java, 100>>, <<Ruby, 60>>,
         <<Perl, 20>>, <<Dart, 100>> >> }

Repositories == [fork : BOOLEAN, languages : LanguageMaps]

Accounts == SeqsUpTo(Repositories, MaxRepos)

\* README.md texts: the markers, a newline and other text, in any arrangement
DocAlphabet == {start_marker[1], end_marker[1], NL, "t"}

Docs == SeqsUpTo(DocAlphabet, MaxDocLen)

\* the README texts a run may read
Readmes == SeqsUpTo(DocAlphabet, MaxReadmeLen)

Contents == SeqsUpTo({"x", NL}, MaxContentLen)

BarInputs == {q \in [n : 0..(100 * MaxDen), d : 1..MaxDen] : q.n <= 100 * q.d}

-----------------------------------------------------------------------------
(* The run: main(), lines 157-172, with the calls it makes.                *)

Idle ==
    /\ applied = 0
    /\ before = <<>>
    /\ once = <<>>
    /\ percentage = [n |-> 0, d |-> 1]
    /\ bar = <<>>

Init ==
    /\ GITHUB_TOKEN \in {None, "token"}
    /\ GITHUB_USERNAME \in {None, "user"}
    \* os.environ.get("README_REPO", GITHUB_USERNAME): unset, empty or set
    /\ README_REPO \in {GITHUB_USERNAME, "", "profile"}
    /\ repos \in Accounts
    /\ pc = "main"
    /\ idx = 0
    /\ language_bytes = <<>>
    /\ total_bytes = 0
    /\ language_percentages = <<>>
    /\ language_stats = <<>>
    /\ markdown_content = <<>>
    /\ current_content = <<>>
    /\ new_content = <<>>
    /\ written = <<>>
    /\ net = <<>>
    /\ printed = <<>>
    /\ exc = NoException
    /\ Idle

study == <<applied, before, once, percentage, bar>>

\* raise e inside main's try, outside update_github_readme's
Raise(e) ==
    /\ exc' = e
    /\ pc' = "main_except"

\* line 160
MainFetching ==
    /\ pc = "main"
    /\ printed' = Append(printed, <<"Fetching...">>)
    /\ pc' = "fetch_config"
    /\ UNCHANGED <<GITHUB_TOKEN, GITHUB_USERNAME, README_REPO, repos, idx,
                   language_bytes, total_bytes, language_percentages,
                   language_stats, markdown_content, current_content,
                   new_content, written, net, exc, study>>

\* lines 27-33
FetchConfig ==
    /\ pc = "fetch_config"
    /\ IF Falsy(GITHUB_TOKEN)
       THEN Raise(<<"ValueError", "GitHub token not found">>) /\ UNCHANGED net
       ELSE IF Falsy(GITHUB_USERNAME)
       THEN Raise(<<"ValueError", "GitHub username not found">>) /\ UNCHANGED net
       ELSE /\ net' = Append(net, "Github")
            /\ pc' = "get_user"
            /\ UNCHANGED exc
    /\ UNCHANGED <<GITHUB_TOKEN, GITHUB_USERNAME, README_REPO, repos, idx,
                   language_bytes, total_bytes, language_percentages,
                   language_stats, markdown_content, current_content,
                   new_content, written, printed, study>>

\* line 34
GetUser ==
    /\ pc = "get_user"
    /\ net' = Append(net, "get_user")
    /\ \/ pc' = "get_repos" /\ UNCHANGED exc
       \/ Raise(<<"GithubException", "get_user">>)
    /\ UNCHANGED <<GITHUB_TOKEN, GITHUB_USERNAME, README_REPO, repos, idx,
                   language_bytes, total_bytes, language_percentages,
                   language_stats, markdown_content, current_content,
                   new_content, written, printed, study>>

\* lines 37-42: the list is fetched when the loop starts
GetRepos ==
    /\ pc = "get_repos"
    /\ net' = Append(net, "get_repos")
    /\ \/ /\ pc' = "loop"
          /\ idx' = 1
          /\ language_bytes' = <<>>
          /\ UNCHANGED exc
       \/ /\ Raise(<<"GithubException", "get_repos">>)
          /\ UNCHANGED <<idx, language_bytes>>
    /\ UNCHANGED <<GITHUB_TOKEN, GITHUB_USERNAME, README_REPO, repos,
                   total_bytes, language_percentages,
                   language_stats, markdown_content, current_content,
                   new_content, written, printed, study>>

\* lines 42-44: a fork is passed over
LoopSkip ==
    /\ pc = "loop"
    /\ idx <= Len(repos)
    /\ IsSkipped(repos[idx])
    /\ idx' = idx + 1
    /\ UNCHANGED <<GITHUB_TOKEN, GITHUB_USERNAME, README_REPO, repos, pc,
                   language_bytes, total_bytes, language_percentages,
                   language_stats, markdown_content, current_content,
                   new_content, written, net, printed, exc, study>>

\* lines 46-48
LoopLanguages ==
    /\ pc = "loop"
    /\ idx <= Len(repos)
    /\ ~IsSkipped(repos[idx])
    /\ net' = Append(net, "get_languages")
    /\ \/ /\ language_bytes' = Accumulate(language_bytes, repos[idx].languages)
          /\ idx' = idx + 1
          /\ UNCHANGED <<pc, exc>>
       \/ /\ Raise(<<"GithubException", "get_languages">>)
          /\ UNCHANGED <<idx, language_bytes>>
    /\ UNCHANGED <<GITHUB_TOKEN, GITHUB_USERNAME, README_REPO, repos,
                   total_bytes, language_percentages,
                   language_stats, markdown_content, current_content,
                   new_content, written, printed, study>>

\* lines 51-58
Total ==
    /\ pc = "loop"
    /\ idx > Len(repos)
    /\ total_bytes' = SumValues(language_bytes)
    /\ IF IsZeroTotal(total_bytes')
       THEN /\ language_stats' = <<>>
            /\ pc' = "returned"
            /\ UNCHANGED <<language_percentages, exc>>
       ELSE IF Percentages(language_bytes, total_bytes') = ZeroDivisionError
       THEN /\ Raise(ZeroDivisionError)
            /\ UNCHANGED <<language_percentages, language_stats>>
       ELSE /\ language_percentages' = Percentages(language_bytes, total_bytes')
            /\ pc' = "sort"
            /\ UNCHANGED <<language_stats, exc>>
    /\ UNCHANGED <<GITHUB_TOKEN, GITHUB_USERNAME, README_REPO, repos, idx,
                   language_bytes, markdown_content, current_content,
                   new_content, written, net, printed, study>>

\* line 61
Sort ==
    /\ pc = "sort"
    /\ language_percentages' = SortDescending(language_percentages)
    /\ pc' = "filter"
    /\ UNCHANGED <<GITHUB_TOKEN, GITHUB_USERNAME, README_REPO, repos, idx,
                   language_bytes, total_bytes, language_stats,
                   markdown_content, current_content, new_content, written,
                   net, printed, exc, study>>

\* lines 64-66
Filter ==
    /\ pc = "filter"
    /\ language_percentages' = FilterMinimum(language_percentages)
    /\ pc' = "truncate"
    /\ UNCHANGED <<GITHUB_TOKEN, GITHUB_USERNAME, README_REPO, repos, idx,
                   language_bytes, total_bytes, language_stats,
                   markdown_content, current_content, new_content, written,
                   net, printed, exc, study>>

\* line 69, and the assignment of line 161
Return ==
    /\ pc = "truncate"
    /\ language_stats' = Truncate(language_percentages)
    /\ pc' = "returned"
    /\ UNCHANGED <<GITHUB_TOKEN, GITHUB_USERNAME, README_REPO, repos, idx,
                   language_bytes, total_bytes, language_percentages,
                   markdown_content, current_content, new_content, written,
                   net, printed, exc, study>>

\* lines 163-164; the frame of fetch_language_stats is gone
MainGenerating ==
    /\ pc = "returned"
    /\ printed' = Append(printed, <<"Generating...">>)
    /\ markdown_content' = generate_language_stats_markdown(language_stats)
    /\ repos' = <<>>
    /\ idx' = 0
    /\ language_bytes' = <<>>
    /\ total_bytes' = 0
    /\ language_percentages' = <<>>
    /\ pc' = "update_config"
    /\ UNCHANGED <<GITHUB_TOKEN, GITHUB_USERNAME, README_REPO,
                   language_stats, current_content, new_content, written,
                   net, exc, study>>

\* lines 166 and 108-114
UpdateConfig ==
    /\ pc = "update_config"
    /\ printed' = Append(printed, <<"Updating...">>)
    /\ IF Falsy(GITHUB_TOKEN)
       THEN Raise(<<"ValueError", "GitHub token not found">>) /\ UNCHANGED net
       ELSE IF Falsy(README_REPO)
       THEN Raise(<<"ValueError", "README repository not specified">>)
            /\ UNCHANGED net
       ELSE /\ net' = Append(net, "Github")
            /\ pc' = "get_repo"
            /\ UNCHANGED exc
    /\ UNCHANGED <<GITHUB_TOKEN, GITHUB_USERNAME, README_REPO, repos, idx,
                   language_bytes, total_bytes, language_percentages,
                   language_stats, markdown_content, current_content,
                   new_content, written, study>>

\* line 117, outside the try of line 119
GetRepo ==
    /\ pc = "get_repo"
    /\ net' = Append(net, "get_repo")
    /\ \/ pc' = "get_contents" /\ UNCHANGED exc
       \/ Raise(<<"GithubException", "get_repo">>)
    /\ UNCHANGED <<GITHUB_TOKEN, GITHUB_USERNAME, README_REPO, repos, idx,
                   language_bytes, total_bytes, language_percentages,
                   language_stats, markdown_content, current_content,
                   new_content, written, printed, study>>

\* lines 121-141: the README is read and the new text computed
GetContents ==
    /\ pc = "get_contents"
    /\ net' = Append(net, "get_contents")
    /\ \/ /\ current_content' \in Readmes
          /\ new_content' = Splice(current_content', markdown_content)
          /\ pc' = "update_file"
          /\ UNCHANGED exc
       \/ /\ exc' = <<"GithubException", "get_contents">>
          /\ pc' = "update_except"
          /\ UNCHANGED <<current_content, new_content>>
    /\ UNCHANGED <<GITHUB_TOKEN, GITHUB_USERNAME, README_REPO, repos, idx,
                   language_bytes, total_bytes, language_percentages,
                   language_stats, markdown_content, written, printed, study>>

\* lines 144-151
UpdateFile ==
    /\ pc = "update_file"
    /\ net' = Append(net, "update_file")
    /\ \/ /\ written' = Append(written, new_content)
          /\ printed' = Append(printed,
                               <<"GitHub profile README updated successfully!">>)
          /\ pc' = "main_ok"
          /\ UNCHANGED exc
       \/ /\ exc' = <<"GithubException", "update_file">>
          /\ pc' = "update_except"
          /\ UNCHANGED <<written, printed>>
    /\ UNCHANGED <<GITHUB_TOKEN, GITHUB_USERNAME, README_REPO, repos, idx,
                   language_bytes, total_bytes, language_percentages,
                   language_stats, markdown_content, current_content,
                   new_content, study>>

\* a handler that reports the failure and does not raise it again
UpdateExceptSwallows ==
    /\ pc = "update_except"
    /\ printed' = Append(printed, <<"Error updating README: ", exc>>)
    /\ exc' = NoException
    /\ pc' = "main_ok"
    /\ UNCHANGED <<GITHUB_TOKEN, GITHUB_USERNAME, README_REPO, repos, idx,
                   language_bytes, total_bytes, language_percentages,
                   language_stats, markdown_content, current_content,
                   new_content, written, net, study>>

\* lines 153-155: reported, then raised again
UpdateExcept ==
    /\ pc = "update_except"
    /\ printed' = Append(printed, <<"Error updating README: ", exc>>)
    /\ pc' = "main_except"
    /\ UNCHANGED <<GITHUB_TOKEN, GITHUB_USERNAME, README_REPO, repos, idx,
                   language_bytes, total_bytes, language_percentages,
                   language_stats, markdown_content, current_content,
                   new_content, written, net, exc, study>>

\* line 169
MainOk ==
    /\ pc = "main_ok"
    /\ printed' = Append(printed, <<"OK.">>)
    /\ pc' = "done"
    /\ UNCHANGED <<GITHUB_TOKEN, GITHUB_USERNAME, README_REPO, repos, idx,
                   language_bytes, total_bytes, language_percentages,
                   language_stats, markdown_content, current_content,
                   new_content, written, net, exc, study>>

\* lines 171-172: every Exception ends here; main returns
MainExcept ==
    /\ pc = "main_except"
    /\ printed' = Append(printed, <<"Error: ", exc>>)
    /\ exc' = NoException
    /\ pc' = "done"
    /\ UNCHANGED <<GITHUB_TOKEN, GITHUB_USERNAME, README_REPO, repos, idx,
                   language_bytes, total_bytes, language_percentages,
                   language_stats, markdown_content, current_content,
                   new_content, written, net, study>>

Next ==
    \/ MainFetching
    \/ FetchConfig
    \/ GetUser
    \/ GetRepos
    \/ LoopSkip
    \/ LoopLanguages
    \/ Total
    \/ Sort
    \/ Filter
    \/ Return
    \/ MainGenerating
    \/ UpdateConfig
    \/ GetRepo
    \/ GetContents
    \/ UpdateFile
    \/ UpdateExcept
    \/ MainOk
    \/ MainExcept

Spec == Init /\ [][Next]_vars

\* the interpreter runs the one thread of the program until main returns
FairSpec == Spec /\ WF_vars(Next)

-----------------------------------------------------------------------------
(* The README splice on its own: successive runs with the same content,    *)
(* each reading the README the run before it wrote.                        *)

RunIdle ==
    /\ GITHUB_TOKEN = None
    /\ GITHUB_USERNAME = None
    /\ README_REPO = None
    /\ repos = <<>>
    /\ idx = 0
    /\ language_bytes = <<>>
    /\ total_bytes = 0
    /\ language_percentages = <<>>
    /\ language_stats = <<>>
    /\ written = <<>>
    /\ net = <<>>
    /\ printed = <<>>
    /\ exc = NoException

InitSplice ==
    /\ RunIdle
    /\ pc = "splice"
    /\ current_content \in Docs
    /\ markdown_content \in Contents
    /\ new_content = <<>>
    /\ applied = 0
    /\ before = <<>>
    /\ once = <<>>
    /\ percentage = [n |-> 0, d |-> 1]
    /\ bar = <<>>

\* lines 125-141, then the written text becomes the README
ReadmeSplice ==
    /\ pc = "splice"
    /\ applied < MaxApply
    /\ new_content' = Splice(current_content, markdown_content)
    /\ before' = current_content
    /\ current_content' = new_content'
    /\ once' = IF applied = 0 THEN new_content' ELSE once
    /\ applied' = applied + 1
    /\ UNCHANGED <<runVars, markdown_content, percentage, bar>>

NextSplice == ReadmeSplice

SpecSplice == InitSplice /\ [][NextSplice]_vars

-----------------------------------------------------------------------------
(* generate_cli_bar on its own.                                            *)

InitBar ==
    /\ RunIdle
    /\ pc = "bar"
    /\ markdown_content = <<>>
    /\ current_content = <<>>
    /\ new_content = <<>>
    /\ applied = 0
    /\ before = <<>>
    /\ once = <<>>
    /\ percentage \in BarInputs
    /\ bar = <<>>

RenderBar ==
    /\ pc = "bar"
    /\ bar' = generate_cli_bar(percentage)
    /\ pc' = "bar_done"
    /\ UNCHANGED <<GITHUB_TOKEN, GITHUB_USERNAME, README_REPO, repos, idx,
                   language_bytes, total_bytes, language_percentages,
                   language_stats, markdown_content, current_content,
                   new_content, written, net, printed, exc, applied, before,
                   once, percentage>>

NextBar == RenderBar

SpecBar == InitBar /\ [][NextBar]_vars

-----------------------------------------------------------------------------
(* Properties of the splice.                                               *)

Section(content) == start_marker \o <<NL>> \o content \o <<NL>> \o end_marker

Occurrences(s, pat) ==
    Cardinality({i \in 0..(Len(s) - Len(pat)) : Slice(s, i, i + Len(pat)) = pat})

BothMarkers(doc) == Contains(doc, start_marker) /\ Contains(doc, end_marker)

\* C1: splicing the same content into the result of a splice changes
\* nothing: every later result equals the first one.
SpliceIdempotent == applied >= 2 => current_content = once

\* C2: when the document holds both markers, the result is the document
\* with the region from its first start marker through its first end
\* marker replaced by the new section; the text before the region and the
\* text after it are each kept once, in place.
ReplacesOnlyMarkedRegion ==
    (applied >= 1 /\ BothMarkers(before)) =>
        \E i, j \in 0..Len(before) :
            /\ i = Find(before, start_marker)
            /\ j = Find(before, end_marker) + Len(end_marker)
            /\ i < j
            /\ current_content = Slice(before, 0, i)
                                   \o Section(markdown_content)
                                   \o Slice(before, j, Len(before))

\* C3: when a marker is missing, the result is the document, unchanged,
\* followed by a blank line and one section holding the content; that
\* section occurs once in the result.
AppendsOneSection ==
    (applied >= 1 /\ ~BothMarkers(before)) =>
        /\ Len(current_content) >= Len(before)
        /\ SubSeq(current_content, 1, Len(before)) = before
        /\ SubSeq(current_content, Len(before) + 1, Len(current_content))
               = <<NL, NL>> \o Section(markdown_content)
        /\ Occurrences(current_content, Section(markdown_content)) = 1

AppendedAfterLoneStartMarker ==
    /\ applied = 1
    /\ Contains(before, start_marker)
    /\ ~Contains(before, end_marker)
    /\ Len(before) >= 2
    /\ markdown_content # <<>>
    /\ Len(current_content) > Len(before)

-----------------------------------------------------------------------------
(* Properties of the bar.                                                  *)

BarOf(filled) == Repeat(FULL_BLOCK, filled) \o Repeat(EMPTY_BLOCK, BAR_LENGTH - filled)

\* C6: for a percentage in [0, 100] the bar has BAR_LENGTH characters:
\* floor(percentage / 100 * BAR_LENGTH) full blocks, then empty blocks only;
\* 0 gives the empty bar, 100 the full bar, 70 gives 14 full and 6 empty.
BarIsFloorOfPercentage ==
    pc = "bar_done" =>
        /\ Len(bar) = BAR_LENGTH
        /\ \E k \in 0..BAR_LENGTH :
              /\ k * 100 * percentage.d <= percentage.n * BAR_LENGTH
              /\ percentage.n * BAR_LENGTH < (k + 1) * 100 * percentage.d
              /\ bar = BarOf(k)
        /\ (percentage.n = 0 => bar = BarOf(0))
        /\ (PctEQ(percentage, [n |-> 100, d |-> 1]) => bar = BarOf(BAR_LENGTH))
        /\ (PctEQ(percentage, [n |-> 70, d |-> 1]) => bar = BarOf(14))

BarOfFractionalPercentage ==
    /\ pc = "bar_done"
    /\ percentage = [n |-> 141, d |-> 2]
    /\ bar = BarOf(14)

-----------------------------------------------------------------------------
(* Properties of the tally and the ranking.                                *)

NonForked(rs) == SelectSeq(rs, LAMBDA r : ~r.fork)

\* the bytes a repository reports for a language
BytesIn(repo, language) ==
    LET at == {k \in 1..Len(repo.languages) : repo.languages[k][1] = language}
    IN  IF at = {} THEN 0 ELSE repo.languages[CHOOSE k \in at : TRUE][2]

RECURSIVE BytesOver(_, _)
BytesOver(rs, language) ==
    IF rs = <<>> THEN 0
    ELSE BytesIn(Head(rs), language) + BytesOver(Tail(rs), language)

LanguagesOf(rs) ==
    UNION {{rs[r].languages[k][1] : k \in 1..Len(rs[r].languages)} :
               r \in 1..Len(rs)}

RECURSIVE TallyOf(_)
TallyOf(rs) ==
    IF rs = <<>> THEN <<>>
    ELSE Accumulate(TallyOf(SubSeq(rs, 1, Len(rs) - 1)), rs[Len(rs)].languages)

RankedOf(tally) ==
    IF SumValues(tally) = 0 THEN <<>>
    ELSE Truncate(FilterMinimum(SortDescending(
             Percentages(tally, SumValues(tally)))))

\* the repositories the loop of line 42 has passed
Passed == SubSeq(repos, 1, idx - 1)

\* C4: forks add nothing: the tally holds, for each language of the
\* repositories that are not forks, the sum of its bytes over those
\* repositories, and the ranked result is the one the account gives with
\* its forks removed.
ForksContributeNothing ==
    /\ pc \in {"loop", "sort", "filter", "truncate", "returned"} =>
          /\ {language_bytes[k][1] : k \in 1..Len(language_bytes)}
                 = LanguagesOf(NonForked(Passed))
          /\ \A k \in 1..Len(language_bytes) :
                 language_bytes[k][2]
                     = BytesOver(NonForked(Passed), language_bytes[k][1])
          /\ language_bytes = TallyOf(NonForked(Passed))
    /\ pc = "returned" =>
          language_stats = RankedOf(TallyOf(NonForked(repos)))

ForkWithDataIgnored ==
    /\ pc = "returned"
    /\ Len(repos) = 2
    /\ repos[1].fork /\ SumValues(repos[1].languages) > 0
    /\ ~repos[2].fork /\ SumValues(repos[2].languages) > 0
    /\ repos[1].languages # repos[2].languages
    /\ language_stats # <<>>

MentionsZeroDivision ==
    \/ exc = ZeroDivisionError
    \/ \E k \in 1..Len(printed) : printed[k] = <<"Error: ", ZeroDivisionError>>

\* C5: when the bytes of the repositories that are not forks sum to zero,
\* fetch_language_stats returns the empty list and nothing divides by zero;
\* the formatter turns the empty list into the "no data" text, no error is
\* raised, and the run goes on to write a README whose section holds it.
ZeroTotalGivesNoData ==
    /\ ~MentionsZeroDivision
    /\ (pc = "returned"
          /\ \A l \in LanguagesOf(NonForked(repos)) :
                 BytesOver(NonForked(repos), l) = 0)
          => (language_stats = <<>> /\ exc = NoException)
    /\ (pc \in {"update_config", "get_repo", "get_contents", "update_file"}
          /\ language_stats = <<>>)
          => (markdown_content = NO_DATA /\ exc = NoException)
    /\ (pc = "update_file" /\ language_stats = <<>>)
          => Contains(new_content, Section(NO_DATA))
    /\ (written # <<>> /\ language_stats = <<>>)
          => Contains(written[1], Section(NO_DATA))

NoDataWritten ==
    /\ pc = "done"
    /\ language_stats = <<>>
    /\ written # <<>>
    /\ Contains(written[1], Section(NO_DATA))
    /\ printed[Len(printed)] = <<"OK.">>

\* place of a language in the tally: the order of first accumulation
TallyIndex(language) ==
    CHOOSE k \in 1..Len(language_bytes) : language_bytes[k][1] = language

InTally(language) ==
    \E k \in 1..Len(language_bytes) : language_bytes[k][1] = language

Returned(language) ==
    \E i \in 1..Len(language_stats) : language_stats[i][1] = language

\* C7: with total bytes > 0 the result is the first MAX_LANGUAGES entries
\* of the tallied languages of percentage >= MIN_PERCENTAGE, by descending
\* percentage, equal percentages in order of first accumulation.
RankedResultIsTopOfThreshold ==
    (pc = "returned" /\ total_bytes > 0) =>
        /\ Len(language_stats) <= MAX_LANGUAGES
        /\ \A i \in 1..Len(language_stats) :
              LET e == language_stats[i]
              IN  /\ InTally(e[1])
                  /\ e[2] = language_bytes[TallyIndex(e[1])][2]
                  /\ PctEQ(e[3], [n |-> 100 * e[2], d |-> total_bytes])
                  /\ 100 * e[2] >= MIN_PERCENTAGE * total_bytes
        /\ \A i, j \in 1..Len(language_stats) :
              i < j =>
                 LET a == language_stats[i]
                     b == language_stats[j]
                 IN  /\ a[1] # b[1]
                     /\ a[2] >= b[2]
                     /\ a[2] = b[2] => TallyIndex(a[1]) < TallyIndex(b[1])
        /\ \A k \in 1..Len(language_bytes) :
              LET l == language_bytes[k][1]
                  c == language_bytes[k][2]
              IN  (100 * c >= MIN_PERCENTAGE * total_bytes /\ ~Returned(l)) =>
                     /\ Len(language_stats) = MAX_LANGUAGES
                     /\ \A i \in 1..Len(language_stats) :
                           /\ language_stats[i][2] >= c
                           /\ language_stats[i][2] = c
                                 => TallyIndex(language_stats[i][1]) < k

RankedWithTieFilterAndCut ==
    /\ pc = "returned"
    /\ total_bytes > 0
    /\ Len(language_stats) = MAX_LANGUAGES
    /\ \E k \in 1..Len(language_bytes) :
          100 * language_bytes[k][2] < MIN_PERCENTAGE * total_bytes
    /\ \E k \in 1..Len(language_bytes) :
          /\ 100 * language_bytes[k][2] >= MIN_PERCENTAGE * total_bytes
          /\ ~Returned(language_bytes[k][1])
    /\ \E i \in 1..(Len(language_stats) - 1) :
          language_stats[i][2] = language_stats[i + 1][2]

-----------------------------------------------------------------------------
(* Properties of the run.                                                  *)

Count(seq, x) == Cardinality({k \in 1..Len(seq) : seq[k] = x})

Last(seq) == seq[Len(seq)]

\* a configuration value is missing: unset, or set to nothing
Missing(x) == x = None \/ x = ""

\* C8: with the token or the user name missing, the run reports it and
\* stops before any network access: no client is built, no call is made,
\* no README is read and none is written.
NoNetworkWithoutConfiguration ==
    (Missing(GITHUB_TOKEN) \/ Missing(GITHUB_USERNAME)) =>
        /\ net = <<>>
        /\ written = <<>>
        /\ current_content = <<>>
        /\ new_content = <<>>
        /\ pc \in {"main", "fetch_config", "main_except", "done"}
        /\ pc = "done" =>
              /\ Len(printed) = 2
              /\ printed[1] = <<"Fetching...">>
              /\ printed[2][1] = "Error: "
              /\ printed[2][2][1] = "ValueError"
              /\ printed[2][2][2] = IF Missing(GITHUB_TOKEN)
                                    THEN "GitHub token not found"
                                    ELSE "GitHub username not found"

AbortedForMissingUsername ==
    /\ pc = "done"
    /\ ~Missing(GITHUB_TOKEN)
    /\ GITHUB_USERNAME = None
    /\ Len(printed) = 2
    /\ net = <<>>

Mentions(tag) == \E k \in 1..Len(printed) : printed[k][1] = tag

RunStages ==
    \* no call is made twice: nothing is retried
    /\ \A call \in {"get_user", "get_repos", "get_repo", "get_contents",
                    "update_file"} : Count(net, call) <= 1
    /\ Count(net, "Github") <= 2
    /\ pc \in {"loop", "sort", "filter", "truncate", "returned"} =>
          Count(net, "get_languages") = Len(NonForked(Passed))
    /\ Len(written) <= 1
    \* the write comes after fetch, format and read
    /\ Count(net, "update_file") = 1 =>
          /\ Mentions("Generating...")
          /\ Mentions("Updating...")
          /\ Count(net, "get_contents") = 1
          /\ markdown_content = generate_language_stats_markdown(language_stats)
          /\ new_content = Splice(current_content, markdown_content)
    /\ written # <<>> => written[1] = new_content
    \* main returns, having printed the outcome
    /\ pc = "done" =>
          /\ exc = NoException
          /\ Last(printed) = <<"OK.">> \/ Last(printed)[1] = "Error: "
          /\ Last(printed) = <<"OK.">> <=> written # <<>>
          /\ Count(printed, <<"OK.">>) + Cardinality({k \in 1..Len(printed) :
                                               printed[k][1] = "Error: "}) = 1
          \* nothing follows the call that failed
          /\ (Last(printed)[1] = "Error: "
                /\ Last(printed)[2][1] = "GithubException")
                => Last(net) = Last(printed)[2][2]
          \* a failed read or write is reported, then raised again
          /\ (net # <<>> /\ Last(net) \in {"get_contents", "update_file"}
                /\ written = <<>>)
                => /\ Len(printed) >= 2
                   /\ printed[Len(printed) - 1]
                         = <<"Error updating README: ",
                             <<"GithubException", Last(net)>> >>
                   /\ Last(printed)
                         = <<"Error: ", <<"GithubException", Last(net)>> >>

\* while an exception is in flight only handlers run, and it ends in main's
\* handler
RunUnwinds ==
    exc # NoException =>
        /\ net' = net
        /\ written' = written
        /\ markdown_content' = markdown_content
        /\ language_stats' = language_stats
        /\ \/ exc' = exc /\ pc' = "main_except"
           \/ /\ exc' = NoException
              /\ pc = "main_except"
              /\ pc' = "done"
              /\ printed' = Append(printed, <<"Error: ", exc>>)

\* C9: one failure in any stage ends the run, with no retry: nothing runs
\* after the stage that failed, the write is attempted at most once and
\* after fetch and format, a failed write is reported and raised again, and
\* main prints every failure and returns.
SingleFailureAborts ==
    /\ []RunStages
    /\ [][RunUnwinds]_vars
    /\ <>(pc = "done")

WriteFailedAndReported ==
    /\ pc = "done"
    /\ Count(net, "update_file") = 1
    /\ written = <<>>
    /\ Last(printed)[1] = "Error: "

-----------------------------------------------------------------------------
(* Properties of the rendered text.                                        *)

RECURSIVE Lines(_)
Lines(text) ==
    IF text = <<>> THEN <<>>
    ELSE LET k == Find(text, <<NL>>)
         IN  IF k = -1 THEN <<text>>
             ELSE <<Slice(text, 0, k)>> \o Lines(Slice(text, k + 1, Len(text)))

Blocks == {FULL_BLOCK, EMPTY_BLOCK}

Generated == Mentions("Generating...")

\* C10: a non-empty ranked list is rendered as one line per entry, in the
\* order of the list; on every line the name is padded to the length of the
\* longest name of the list, so the bar starts at the same column, and the
\* bar has BAR_LENGTH characters.
OneAlignedLinePerEntry ==
    (Generated /\ language_stats # <<>>) =>
        LET rows == Lines(markdown_content)
        IN  /\ Last(markdown_content) = NL
            /\ Len(rows) = Len(language_stats)
            /\ \E w \in {Len(language_stats[i][1]) : i \in 1..Len(language_stats)} :
                  /\ \A i \in 1..Len(language_stats) : Len(language_stats[i][1]) <= w
                  /\ \A i \in 1..Len(rows) :
                        LET row  == rows[i]
                            name == language_stats[i][1]
                        IN  /\ Len(row) > w + 2 + BAR_LENGTH + 2
                            /\ SubSeq(row, 1, Len(name)) = name
                            /\ \A k \in (Len(name) + 1)..(w + 2) : row[k] = " "
                            /\ \A k \in (w + 3)..(w + 2 + BAR_LENGTH) :
                                  row[k] \in Blocks
                            /\ row[w + 3 + BAR_LENGTH] = " "
                            /\ row[w + 4 + BAR_LENGTH] = " "
                            /\ \A k \in (w + 5 + BAR_LENGTH)..Len(row) :
                                  row[k] \notin Blocks \cup {" "}
                            /\ Last(row) = "%"

RowsOfUnequalNames ==
    /\ pc = "update_config"
    /\ Len(language_stats) >= 2
    /\ \E i, j \in 1..Len(language_stats) :
          Len(language_stats[i][1]) < Len(language_stats[j][1])
    /\ Len(Lines(markdown_content)) = Len(language_stats)

=============================================================================
